---- MODULE Spec2Model ----
(***************************************************************************)
(* A model of the seam-aware decimater: the command-line driver (main,     *)
(* decimate_down_to) and the decimation engine (prepare, the collapse      *)
(* loop, clean_mesh).  Coordinates are not modelled: a vertex is its row   *)
(* index, a cost is a natural number or Infinity, and what the geometry    *)
(* decides (finite costs, flips) is a choice among the possible outcomes.  *)
(***************************************************************************)
EXTENDS Integers, Sequences, FiniteSets, TLC

(* ------------------------------------------------------------------ *)
(* Bounds of the model.                                                *)
(* ------------------------------------------------------------------ *)
\* finite costs are the squares (2k)^2 for k in 0..MaxRoot
MaxRoot == 1
\* at most this many unreferenced rows are appended to a catalogue mesh
MaxIsolated == 1

(* ------------------------------------------------------------------ *)
(* Program constants.                                                  *)
(* ------------------------------------------------------------------ *)
\* the null sentinel written into the corners of a collapsed face
DUV_COLLAPSE_EDGE_NULL == -1
\* std::numeric_limits<double>::infinity() as a queue cost
Infinity == 1000
\* the value of an int local that was declared and never assigned
Uninit == -2
\* the boundary marker of igl::edge_flaps in EF
NoFace == -1

Corners == 0 .. 2

Row(a, b, c) == [i \in Corners |-> IF i = 0 THEN a ELSE IF i = 1 THEN b ELSE c]

Mat(s) == [r \in 0 .. (Len(s) - 1) |-> s[r + 1]]

Rows(M) == Cardinality(DOMAIN M)

NullRow == Row(DUV_COLLAPSE_EDGE_NULL, DUV_COLLAPSE_EDGE_NULL, DUV_COLLAPSE_EDGE_NULL)

Min2(a, b) == IF a <= b THEN a ELSE b

Max2(a, b) == IF a >= b THEN a ELSE b

\* the unordered edge {u,v} as a sorted pair
Key(u, v) == <<Min2(u, v), Max2(u, v)>>

LexLess(p, q) == p[1] < q[1] \/ (p[1] = q[1] /\ p[2] < q[2])

(* ------------------------------------------------------------------ *)
(* The input meshes.  F and FT are rows of three indices; nV and nTC   *)
(* count the rows of V and TC; fold lists the edges igl::seam_edges    *)
(* reports as foldovers (a matter of UV geometry); pos_scale is the    *)
(* scale decimate_down_to derives from the mean face area.             *)
(* ------------------------------------------------------------------ *)
Meshes ==
  << \* one triangle: three boundary edges
     [nV |-> 3, nTC |-> 3, fold |-> {}, pos_scale |-> 1,
      F  |-> Mat(<<Row(0,1,2)>>),
      FT |-> Mat(<<Row(0,1,2)>>)],
     \* a closed tetrahedron in two UV charts: the face 0 1 2 is a chart of its own,
     \* so its three edges are seams and vertex 3 is the only one off the seam
     [nV |-> 4, nTC |-> 7, fold |-> {}, pos_scale |-> 2,
      F  |-> Mat(<<Row(0,1,2), Row(0,3,1), Row(0,2,3), Row(1,3,2)>>),
      FT |-> Mat(<<Row(0,1,2), Row(4,3,5), Row(4,6,3), Row(5,3,6)>>)],
     \* a triangle fanned around the interior vertex 3, its spoke 0-3 folding over in UV
     [nV |-> 4, nTC |-> 4, fold |-> {<<0,3>>}, pos_scale |-> 2,
      F  |-> Mat(<<Row(0,1,3), Row(1,2,3), Row(2,0,3)>>),
      FT |-> Mat(<<Row(0,1,3), Row(1,2,3), Row(2,0,3)>>)],
     \* two triangles on the diagonal 0-2: four boundary edges, every vertex on the
     \* boundary, so an edge stays collapsible after its neighbour was collapsed
     [nV |-> 4, nTC |-> 4, fold |-> {}, pos_scale |-> 1,
      F  |-> Mat(<<Row(0,1,2), Row(0,2,3)>>),
      FT |-> Mat(<<Row(0,1,2), Row(0,2,3)>>)] >>

(* ------------------------------------------------------------------ *)
(* The libigl primitives the engine calls.                             *)
(* ------------------------------------------------------------------ *)
\* row k = f + i*nF of the directed edges of F: the edge opposite corner i of face f
DirEdge(F, k) ==
  LET nF == Rows(F)
      f  == k % nF
      i  == k \div nF
  IN  <<F[f][(i + 1) % 3], F[f][(i + 2) % 3]>>

DirKey(F, k) == Key(DirEdge(F, k)[1], DirEdge(F, k)[2])

EdgeKeys(F) == {DirKey(F, k) : k \in 0 .. (3 * Rows(F) - 1)}

RankOf(keys, p) == Cardinality({q \in keys : LexLess(q, p)})

SetMin(S) == CHOOSE x \in S : \A y \in S : x <= y

SetMax(S) == CHOOSE x \in S : \A y \in S : x >= y

\* igl::edge_flaps: the unique edges E in the order of their sorted pairs, each
\* oriented as its first directed occurrence; EMAP from face corners to edges;
\* EF the faces on its two sides (NoFace when none) and EI the opposite corners
edge_flaps(F) ==
  LET nF   == Rows(F)
      K    == 0 .. (3 * nF - 1)
      keys == EdgeKeys(F)
      nE   == Cardinality(keys)
      EMAP == [k \in K |-> RankOf(keys, DirKey(F, k))]
      E    == [e \in 0 .. (nE - 1) |-> DirEdge(F, SetMin({k \in K : EMAP[k] = e}))]
      Side(e, s) == {k \in K : EMAP[k] = e /\ ((DirEdge(F, k) = E[e]) <=> (s = 0))}
      Last(e, s) == SetMax({3 * (k % nF) + (k \div nF) : k \in Side(e, s)})
      EF   == [e \in 0 .. (nE - 1) |->
                 [s \in 0 .. 1 |-> IF Side(e, s) = {} THEN NoFace ELSE Last(e, s) \div 3]]
      EI   == [e \in 0 .. (nE - 1) |->
                 [s \in 0 .. 1 |-> IF Side(e, s) = {} THEN NoFace ELSE Last(e, s) % 3]]
  IN  [E |-> E, EMAP |-> EMAP, EF |-> EF, EI |-> EI]

\* the set S of integers as the sequence of its elements in ascending order
RECURSIVE Ascending(_)
Ascending(S) ==
  IF S = {} THEN <<>> ELSE <<SetMin(S)>> \o Ascending(S \ {SetMin(S)})

\* igl::connect_boundary_to_infinity: one more vertex, at row nV, and for every
\* boundary edge (a,b) of F one more face (b,a,nV), the new vertex in its last corner
connect_boundary_to_infinity(nV, F) ==
  LET K  == 0 .. (3 * Rows(F) - 1)
      B  == {k \in K : Cardinality({j \in K : DirKey(F, j) = DirKey(F, k)}) = 1}
      O  == Ascending(B)
      nF == Rows(F)
  IN  [nV |-> nV + 1,
       F  |-> [f \in 0 .. (nF + Len(O) - 1) |->
                 IF f < nF THEN F[f]
                 ELSE Row(DirEdge(F, O[f - nF + 1])[2], DirEdge(F, O[f - nF + 1])[1], nV)]]

\* igl::remove_unreferenced: the rows of 0..n-1 some face of F references, in
\* ascending order, and F with every index replaced by its new row (an index that
\* is no row of 0..n-1 has no new row: it stays the invalid index it is)
remove_unreferenced(n, F) ==
  LET used == {v \in 0 .. (n - 1) : \E f \in DOMAIN F : \E i \in Corners : F[f][i] = v}
      I(v) == IF v \in used THEN Cardinality({u \in used : u < v}) ELSE v
  IN  [V |-> Ascending(used),
       F |-> [f \in DOMAIN F |-> [i \in Corners |-> I(F[f][i])]]]

\* the faces of F holding both u and v
FacesOn(F, u, v) ==
  {f \in DOMAIN F : (\E i \in Corners : F[f][i] = u) /\ (\E i \in Corners : F[f][i] = v)}

CornerOf(F, f, v) == CHOOSE i \in Corners : F[f][i] = v

\* igl::seam_edges, as unordered vertex pairs: an edge with one face is a boundary,
\* an edge whose two faces give an endpoint different UV rows is a seam, and the
\* foldovers are those the UV geometry of the input names
seam_edges_of(m) ==
  LET keys == EdgeKeys(m.F)
      nf(p) == Cardinality(FacesOn(m.F, p[1], p[2]))
      uvs(p, v) == {m.FT[f][CornerOf(m.F, f, v)] : f \in FacesOn(m.F, p[1], p[2])}
  IN  [boundaries |-> {p \in keys : nf(p) = 1},
       seams      |-> {p \in keys : nf(p) = 2 /\
                          (Cardinality(uvs(p, p[1])) > 1 \/ Cardinality(uvs(p, p[2])) > 1)},
       foldovers  |-> m.fold \cap keys]

(* ------------------------------------------------------------------ *)
(* The state of a run.                                                 *)
(* ------------------------------------------------------------------ *)
VARIABLES
  pc,                   \* where the run is
  entry,                \* "main": the command line; "api": decimate_halfedge_5d called directly
  mesh,                 \* the input: OV, OF, OTC, OFT as a catalogue record
  cmd_target,           \* the target vertex count main parsed
  custom_output_path,   \* main: an output path was given
  argv4_null,           \* main: argv[4] is the null pointer that ends argv
  seam_aware_degree, preserve_boundaries,
  seam_edges,           \* the seam set, as sorted vertex pairs
  nV, F, nTC, FT, E,    \* the working tables (V and TC by their row counts)
  Q, Qit,               \* the priority queue of <<cost, edge>> and the edge's entry
  stale,                \* the edges whose queued cost predates a collapse next to them
  target_num_vertices, remain_vertices,
  prev_e, e, success,   \* collapse_one_edge
  cost, clean_finish, current_max_error, max_error,
  collapses,            \* the collapses performed: <<edge, queue cost, v_from, v_to>>
  out,                  \* what decimate_halfedge_5d returned, what main wrote
  exit_code

inputVars == <<entry, mesh, cmd_target, seam_aware_degree, preserve_boundaries>>
mainVars == <<custom_output_path, argv4_null>>
meshVars == <<nV, F, nTC, FT, E>>
queueVars == <<Q, Qit, stale>>
loopVars == <<target_num_vertices, remain_vertices, prev_e, e, success, cost,
              clean_finish, current_max_error, max_error, collapses>>
vars == <<pc, inputVars, mainVars, seam_edges, meshVars, queueVars, loopVars, out, exit_code>>

\* a catalogue mesh with k rows no face references appended to V and to TC
WithIsolated(m, k) == [m EXCEPT !.nV = m.nV + k, !.nTC = m.nTC + k]

\* the inputs: the catalogue, and the triangle and the tetrahedron with
\* unreferenced rows
InputMeshes ==
  {Meshes[i] : i \in 1 .. Len(Meshes)}
    \cup {WithIsolated(Meshes[i], k) : i \in 1 .. 2, k \in 1 .. MaxIsolated}

\* SeamAwareDegree: NoUVShapePreserving = 0, UVShapePreserving = 1, Seamless = 2.
\* What UVShapePreserving forbids is a matter of UV geometry, so in what the tables
\* decide it is as NoUVShapePreserving; the runs take the two ends of the scale.
Degrees == {0, 2}

Seamless == 2

Costs == {(2 * k) * (2 * k) : k \in 0 .. MaxRoot}

\* the boundary edges of OF as igl::edge_flaps marks them: no face on side 1
FlapBoundary(OF) ==
  LET ef == edge_flaps(OF)
  IN  {Key(ef.E[i][1], ef.E[i][2]) : i \in {j \in DOMAIN ef.E : ef.EF[j][1] = NoFace}}

\* the seam set without the loop over the foldovers
SeamVertexEdgesNoFoldovers(m, preserve) ==
  LET c == seam_edges_of(m)
  IN  c.seams \cup c.boundaries \cup (IF preserve THEN FlapBoundary(m.F) ELSE {})

\* decimate_down_to: the seams, boundaries and foldovers of the input, and with
\* preserve_boundaries the boundary edges of edge_flaps, as one set of vertex pairs
SeamVertexEdges(m, preserve) ==
  LET c == seam_edges_of(m)
  IN  c.seams \cup c.boundaries \cup c.foldovers
        \cup (IF preserve THEN FlapBoundary(m.F) ELSE {})

NoOut == [V |-> <<>>, F |-> <<>>, TC |-> <<>>, FT |-> <<>>, F2 |-> <<>>, FT2 |-> <<>>,
          returned |-> FALSE, warning |-> FALSE, wrote |-> FALSE, path |-> <<>>]

Init ==
  /\ mesh \in InputMeshes
  /\ seam_aware_degree \in Degrees
  /\ preserve_boundaries \in BOOLEAN
  /\ \/ /\ entry = "main"
        /\ pc = "main"
        /\ cmd_target \in 0 .. (mesh.nV + 1)
        /\ seam_edges = {}
        /\ target_num_vertices = 0
     \/ /\ entry = "api"
        /\ pc = "prepare"
        /\ cmd_target = mesh.nV
        /\ seam_edges = SeamVertexEdges(mesh, preserve_boundaries)
        /\ target_num_vertices = mesh.nV
  /\ custom_output_path = FALSE
  /\ argv4_null = FALSE
  /\ nV = mesh.nV /\ F = mesh.F /\ nTC = mesh.nTC /\ FT = mesh.FT
  /\ E = <<>>
  /\ Q = {} /\ Qit = <<>> /\ stale = {}
  /\ remain_vertices = 0
  /\ prev_e = -1 /\ e = Uninit /\ success = FALSE
  /\ cost = 0 /\ clean_finish = TRUE /\ current_max_error = 0 /\ max_error = 0
  /\ collapses = <<>>
  /\ out = NoOut
  /\ exit_code = "running"

(* ------------------------------------------------------------------ *)
(* main and decimate_down_to.                                          *)
(* ------------------------------------------------------------------ *)
Identity(n) == [j \in 1 .. n |-> j - 1]

\* main, from the parsed command line to the call of decimate_down_to.  Both error
\* messages stream argv[4]: with three arguments and no option that is the null
\* pointer ending argv, which operator<< may not be given; libstdc++ sets badbit
\* and goes on, libc++ takes its length and the process dies.  Whether a fourth
\* argument was given is read here only on the two error paths; the decimating
\* path reads it when it names the output (MainWrite).
Main ==
  /\ pc = "main"
  /\ IF cmd_target <= 0
       THEN \E given \in BOOLEAN :
              /\ custom_output_path' = given
              /\ argv4_null' = (~given /\ ~preserve_boundaries /\ seam_aware_degree = Seamless)
              /\ exit_code' \in (IF argv4_null' THEN {"-1", "crash"} ELSE {"-1"})
              /\ pc' = "done"
              /\ UNCHANGED <<out, target_num_vertices>>
       ELSE IF cmd_target >= mesh.nV
       THEN \E given \in BOOLEAN :
              /\ custom_output_path' = given
              /\ argv4_null' = (~given /\ ~preserve_boundaries /\ seam_aware_degree = Seamless)
              /\ out' = [NoOut EXCEPT !.V = Identity(mesh.nV), !.F = mesh.F,
                                      !.TC = Identity(mesh.nTC), !.FT = mesh.FT,
                                      !.wrote = TRUE,
                                      !.path = <<"decimated_to", mesh.nV, "vertices">>]
              /\ exit_code' \in (IF argv4_null' THEN {"0", "crash"} ELSE {"0"})
              /\ pc' = "done"
              /\ UNCHANGED target_num_vertices
       ELSE /\ target_num_vertices' = cmd_target
            /\ pc' = "decimate_down_to"
            /\ UNCHANGED <<mainVars, out, exit_code>>
  /\ UNCHANGED <<inputVars, seam_edges, meshVars, queueVars, remain_vertices, prev_e, e,
                 success, cost, clean_finish, current_max_error, max_error, collapses>>

\* decimate_down_to, up to its call of decimate_halfedge_5d
DecimateDownTo ==
  /\ pc = "decimate_down_to"
  /\ seam_edges' = SeamVertexEdges(mesh, preserve_boundaries)
  /\ pc' = "prepare"
  /\ UNCHANGED <<inputVars, mainVars, meshVars, queueVars, loopVars, out, exit_code>>

(* ------------------------------------------------------------------ *)
(* The cost and placement oracle, as far as the tables decide it.      *)
(* ------------------------------------------------------------------ *)
NullEdge == <<DUV_COLLAPSE_EDGE_NULL, DUV_COLLAPSE_EDGE_NULL>>

Neighbours(Fw, v) ==
  {Fw[f][i] : f \in {g \in DOMAIN Fw : \E j \in Corners : Fw[g][j] = v}, i \in Corners} \ {v}

Thirds(Fw, u, v) == {Fw[f][i] : f \in FacesOn(Fw, u, v), i \in Corners} \ {u, v}

\* the collapse keeps the surface a surface: the edge has its two faces and its
\* endpoints share no neighbour but the two vertices across them
LinkOK(Fw, u, v) ==
  /\ Cardinality(FacesOn(Fw, u, v)) = 2
  /\ Cardinality(Thirds(Fw, u, v)) = 2
  /\ Neighbours(Fw, u) \cap Neighbours(Fw, v) = Thirds(Fw, u, v)

SeamVertex(S, v) == \E p \in S : p[1] = v \/ p[2] = v

\* the directed collapses <<v_from, v_to>> of the edge {u,v} that are not forbidden
PermittedDirs(Fw, S, deg, infv, u, v) ==
  IF u = infv \/ v = infv \/ ~LinkOK(Fw, u, v) THEN {}
  ELSE IF deg = Seamless
  THEN IF SeamVertex(S, u) /\ SeamVertex(S, v)
         THEN (IF Key(u, v) \in S THEN {<<u, v>>, <<v, u>>} ELSE {})
       ELSE IF SeamVertex(S, u) THEN {<<v, u>>}
       ELSE IF SeamVertex(S, v) THEN {<<u, v>>}
       ELSE {<<u, v>>, <<v, u>>}
  ELSE {<<u, v>>, <<v, u>>}

\* the costs cost_and_placement_qslim5d_halfedge can return for edge x
OracleCosts(Fw, S, deg, infv, Ew, x) ==
  IF Ew[x] = NullEdge \/ PermittedDirs(Fw, S, deg, infv, Ew[x][1], Ew[x][2]) = {}
    THEN {Infinity}
    ELSE Costs \cup {Infinity}

\* the assignments of a cost to every edge of X
CostChoices(Fw, S, deg, infv, Ew, X) ==
  LET free == {x \in X : OracleCosts(Fw, S, deg, infv, Ew, x) # {Infinity}}
  IN  {[x \in X |-> IF x \in DOMAIN g THEN g[x] ELSE Infinity] :
          g \in [free -> Costs \cup {Infinity}]}

QEnd == <<>>

\* a queue that hands out, among its cheapest entries, the one of the highest edge index
QBeginHighestIndex(q) ==
  CHOOSE p \in q : \A r \in q : p[1] < r[1] \/ (p[1] = r[1] /\ p[2] >= r[2])

\* Q.begin(): the least entry, by cost and then by edge index
QBegin(q) == CHOOSE p \in q : \A r \in q : p = r \/ LexLess(p, r)

(* ------------------------------------------------------------------ *)
(* prepare_decimate_halfedge_5d.                                       *)
(* ------------------------------------------------------------------ *)
\* the row of the working V that holds the vertex at infinity
InfinityVertex == mesh.nV

\* the row of the working TC that holds the texture coordinate at infinity
InfinityUV == mesh.nTC

\* FT for the augmented F: the rows of OFT, and for every face fi added for the
\* boundary the UV rows its two real vertices have in the face across its real edge
PrepareFT(OF, OFT, nOTC, Faug, ef) ==
  LET fi_vinf == 2
      row(fi) ==
        LET x         == ef.EMAP[fi_vinf * Rows(Faug) + fi]
            fi_opp    == IF ef.EF[x][0] = fi THEN ef.EF[x][1] ELSE ef.EF[x][0]
            fi_opp_v1 == SetMin({v \in Corners :
                                   Faug[fi_opp][v] = Faug[fi][(fi_vinf + 1) % 3]})
            fi_opp_v2 == (fi_opp_v1 - 1 + 3) % 3
        IN  [i \in Corners |->
               IF i = fi_vinf THEN nOTC
               ELSE IF i = (fi_vinf + 1) % 3 THEN OFT[fi_opp][fi_opp_v1]
               ELSE OFT[fi_opp][fi_opp_v2]]
  IN  [fi \in DOMAIN Faug |-> IF fi < Rows(OF) THEN OFT[fi] ELSE row(fi)]

\* a queue keyed on the cost alone: of the edges of one cost only the first has an entry
SeedQueueByCost(c) ==
  {<<k, SetMin({x \in DOMAIN c : c[x] = k})>> : k \in {c[x] : x \in DOMAIN c}}

\* Qit[e] = Q.insert(std::pair<double,int>(cost,e)).first for every edge e: the
\* queue that holds <<c[e], e>> for every edge
SeedQueue(c) == {<<c[x], x>> : x \in DOMAIN c}

\* the target without the increment for the vertex at infinity
TargetNotIncremented(t, has_infinity_vertex) == t

\* if( has_infinity_vertex ) target_num_vertices++
TargetWithInfinity(t, has_infinity_vertex) == IF has_infinity_vertex THEN t + 1 ELSE t

\* prepare_decimate_halfedge_5d, and the locals decimate_halfedge_5d sets before its loop
Prepare ==
  /\ pc = "prepare"
  /\ \E aug \in {connect_boundary_to_infinity(mesh.nV, mesh.F)} :
     \E ef \in {edge_flaps(aug.F)} :
     \E S \in {seam_edges \cup (IF preserve_boundaries THEN FlapBoundary(mesh.F) ELSE {})} :
       LET has_infinity_vertex == (aug.nV - 1 = InfinityVertex)
       IN  /\ seam_edges' = S
           /\ nV' = aug.nV
           /\ F' = aug.F
           /\ target_num_vertices' =
                TargetWithInfinity(target_num_vertices, has_infinity_vertex)
           /\ nTC' = (IF has_infinity_vertex THEN mesh.nTC + 1 ELSE mesh.nTC)
           /\ FT' = (IF has_infinity_vertex
                       THEN PrepareFT(mesh.F, mesh.FT, mesh.nTC, aug.F, ef) ELSE mesh.FT)
           /\ E' = ef.E
           /\ \E c \in CostChoices(aug.F, S, seam_aware_degree, InfinityVertex, ef.E,
                                   DOMAIN ef.E) :
                /\ Q' = SeedQueue(c)
                /\ Qit' = [x \in DOMAIN c |-> <<c[x], x>>]
           /\ stale' = {}
           /\ remain_vertices' = aug.nV
  /\ prev_e' = -1
  /\ clean_finish' = TRUE
  /\ current_max_error' = 0
  /\ pc' = "loop"
  /\ UNCHANGED <<inputVars, mainVars, e, success, cost, max_error, collapses, out, exit_code>>

(* ------------------------------------------------------------------ *)
(* collapse_edge_with_uv: the half-edge collapse of v_from into v_to.  *)
(* ------------------------------------------------------------------ *)
Other(p, v) == IF p[1] = v THEN p[2] ELSE p[1]

Rename(x, from, to) == IF x = from THEN to ELSE x

\* the tables after the collapse: the faces on the edge become tombstones in F and
\* in FT, every other corner at v_from moves to v_to and to v_to's UV row on that
\* side, the edge and the edges from v_from to the two vertices across it die,
\* every other edge at v_from moves to v_to, and the seam set follows
CollapseTables(Fw, FTw, Ew, S, from, to) ==
  LET dying  == FacesOn(Fw, from, to)
      uvOf(d, v) == FTw[d][CornerOf(Fw, d, v)]
      UVImage(t) ==
        IF \E d \in dying : uvOf(d, from) = t
          THEN uvOf(SetMin({d \in dying : uvOf(d, from) = t}), to)
          ELSE t
      killed == {x \in DOMAIN Ew :
                   \/ Key(Ew[x][1], Ew[x][2]) = Key(from, to)
                   \/ \E w \in Thirds(Fw, from, to) : Key(Ew[x][1], Ew[x][2]) = Key(from, w)}
  IN  [F  |-> [f \in DOMAIN Fw |->
                 IF f \in dying THEN NullRow
                 ELSE [i \in Corners |-> Rename(Fw[f][i], from, to)]],
       FT |-> [f \in DOMAIN FTw |->
                 IF f \in dying THEN NullRow
                 ELSE [i \in Corners |->
                         IF Fw[f][i] = from THEN UVImage(FTw[f][i]) ELSE FTw[f][i]]],
       E  |-> [x \in DOMAIN Ew |->
                 IF x \in killed THEN NullEdge
                 ELSE <<Rename(Ew[x][1], from, to), Rename(Ew[x][2], from, to)>>],
       killed |-> killed,
       seam |-> (S \ {Key(from, to)})
                  \cup {Key(to, Other(p, from)) :
                          p \in {q \in S : (q[1] = from \/ q[2] = from) /\ q # Key(from, to)}}]

\* the popped edge may be refused: its queued cost predates a collapse next to it
\* and the oracle now rates it higher, or it is forbidden by now, or (the executor
\* is handed preserve_boundaries) it touches the boundary that is to be preserved
MayRefuse(x, dirs) ==
  \/ x \in stale
  \/ dirs = {}
  \/ /\ preserve_boundaries
     /\ \E i \in 1 .. 2 : E[x][i] \in Neighbours(F, InfinityVertex)

\* collapse_edge_with_uv collapses the popped entry p in the direction d and
\* re-keys the edges around v_to
CollapseSucceeds(p, d) ==
  \E t \in {CollapseTables(F, FT, E, seam_edges, d[1], d[2])} :
  \E refreshed \in {{x \in DOMAIN E \ t.killed : t.E[x][1] = d[2] \/ t.E[x][2] = d[2]}} :
  \E near \in {Neighbours(t.F, d[2])} :
      /\ F' = t.F /\ FT' = t.FT /\ E' = t.E
      /\ seam_edges' = t.seam
      /\ \E c \in CostChoices(t.F, t.seam, seam_aware_degree, InfinityVertex, t.E, refreshed) :
           /\ Q' = {q \in Q : q[2] \notin (t.killed \cup refreshed)}
                     \cup {<<c[x], x>> : x \in refreshed}
           /\ Qit' = [x \in DOMAIN Qit |->
                        IF x \in t.killed THEN QEnd
                        ELSE IF x \in refreshed THEN <<c[x], x>> ELSE Qit[x]]
      /\ stale' = {x \in DOMAIN E \ (t.killed \cup refreshed) :
                     x \in stale \/ (t.E[x] # NullEdge /\
                                     (t.E[x][1] \in near \/ t.E[x][2] \in near))}
      /\ collapses' = Append(collapses, <<p[2], p[1], d[1], d[2]>>)
      /\ UNCHANGED <<nV, nTC>>

\* a refusal that leaves the popped entry in the queue at the cost it had
CollapseRefusedAtSameCost(p, c) ==
  UNCHANGED <<Q, Qit, stale, seam_edges, meshVars, collapses>>

\* collapse_edge_with_uv refuses the popped entry p and puts it back at the higher cost c
CollapseRefused(p, c) ==
  /\ Q' = (Q \ {p}) \cup {<<c, p[2]>>}
  /\ Qit' = [Qit EXCEPT ![p[2]] = <<c, p[2]>>]
  /\ stale' = stale \ {p[2]}
  /\ UNCHANGED <<seam_edges, meshVars, collapses>>

(* ------------------------------------------------------------------ *)
(* decimate_halfedge_5d: the loop, collapse_one_edge, the return.      *)
(* ------------------------------------------------------------------ *)
\* the head of the while loop, up to the call of collapse_one_edge
LoopHead ==
  /\ pc = "loop"
  /\ IF remain_vertices > target_num_vertices /\ Q # {} /\ QBegin(Q)[1] # Infinity
       THEN /\ cost' = QBegin(Q)[1]
            /\ success' = FALSE
            /\ e' = Uninit
            /\ pc' = "collapse_one_edge"
       ELSE /\ pc' = "clean_mesh"
            /\ UNCHANGED <<cost, success, e>>
  /\ UNCHANGED <<inputVars, mainVars, seam_edges, meshVars, queueVars, target_num_vertices,
                 remain_vertices, prev_e, clean_finish, current_max_error, max_error,
                 collapses, out, exit_code>>

\* one turn of the while(true) of collapse_one_edge
CollapseAttempt ==
  /\ pc = "collapse_one_edge"
  /\ IF Q = {} \/ QBegin(Q)[1] = Infinity
       THEN /\ pc' = "collapse_returned"
            /\ UNCHANGED <<e, success, seam_edges, meshVars, queueVars, collapses>>
       ELSE \E p \in {QBegin(Q)} :
            \E dirs \in {PermittedDirs(F, seam_edges, seam_aware_degree, InfinityVertex,
                                       E[p[2]][1], E[p[2]][2])} :
                /\ e' = p[2]
                /\ \/ /\ \E d \in dirs : CollapseSucceeds(p, d)
                      /\ success' = TRUE
                      /\ pc' = "collapse_returned"
                   \/ /\ MayRefuse(p[2], dirs)
                      /\ \E c \in Costs \cup {Infinity} :
                           /\ c > p[1]
                           /\ dirs = {} => c = Infinity
                           /\ CollapseRefused(p, c)
                      /\ UNCHANGED success
                      /\ pc' = (IF prev_e = p[2] THEN "collapse_returned"
                                                 ELSE "collapse_one_edge")
  /\ UNCHANGED <<inputVars, mainVars, target_num_vertices, remain_vertices, prev_e, cost,
                 clean_finish, current_max_error, max_error, out, exit_code>>

\* the square root of a cost that is a square
Sqrt(c) == CHOOSE r \in 0 .. c : r * r = c

\* sqrt(max(0, cost)) / pos_scale; the costs of the model are squares of even
\* numbers and the scales of the catalogue are 1 and 2, so the quotient is exact
ErrorOf(c) == Sqrt(Max2(0, c)) \div mesh.pos_scale

\* collapse_one_edge returns, and the rest of the loop body
LoopTail ==
  /\ pc = "collapse_returned"
  /\ prev_e' = e
  /\ IF ~success
       THEN /\ clean_finish' = FALSE
            /\ pc' = "clean_mesh"
            /\ UNCHANGED <<current_max_error, remain_vertices>>
       ELSE /\ current_max_error' = Max2(current_max_error, ErrorOf(cost))
            /\ remain_vertices' = remain_vertices - 1
            /\ pc' = "loop"
            /\ UNCHANGED clean_finish
  /\ UNCHANGED <<inputVars, mainVars, seam_edges, meshVars, queueVars, target_num_vertices,
                 e, success, cost, max_error, collapses, out, exit_code>>

\* clean_mesh without its test for tombstones: every one of the first nF rows is copied
clean_mesh_keep_tombstones(n, Fw, nT, FTw, nF) ==
  LET F2  == [m \in 0 .. (nF - 1) |-> Fw[m]]
      FT2 == [m \in 0 .. (nF - 1) |-> FTw[m]]
      rv  == remove_unreferenced(n, F2)
      rt  == remove_unreferenced(nT, FT2)
  IN  [V |-> rv.V, F |-> rv.F, TC |-> rt.V, FT |-> rt.F, F2 |-> F2, FT2 |-> FT2]

\* clean_mesh run over every row of the working F instead of the first nF
clean_mesh_all_rows(n, Fw, nT, FTw, nF) ==
  LET keep == {f \in DOMAIN Fw : \E i \in Corners : Fw[f][i] # DUV_COLLAPSE_EDGE_NULL}
      rows == Ascending(keep)
      F2   == [m \in 0 .. (Len(rows) - 1) |-> Fw[rows[m + 1]]]
      FT2  == [m \in 0 .. (Len(rows) - 1) |-> FTw[rows[m + 1]]]
      rv   == remove_unreferenced(n, F2)
      rt   == remove_unreferenced(nT, FT2)
  IN  [V |-> rv.V, F |-> rv.F, TC |-> rt.V, FT |-> rt.F, F2 |-> F2, FT2 |-> FT2]

\* clean_mesh: the first nF faces that are not tombstones, then the rows they use
clean_mesh(n, Fw, nT, FTw, nF) ==
  LET keep == {f \in 0 .. (nF - 1) : \E i \in Corners : Fw[f][i] # DUV_COLLAPSE_EDGE_NULL}
      rows == Ascending(keep)
      F2   == [m \in 0 .. (Len(rows) - 1) |-> Fw[rows[m + 1]]]
      FT2  == [m \in 0 .. (Len(rows) - 1) |-> FTw[rows[m + 1]]]
      rv   == remove_unreferenced(n, F2)
      rt   == remove_unreferenced(nT, FT2)
  IN  [V |-> rv.V, F |-> rv.F, TC |-> rt.V, FT |-> rt.F, F2 |-> F2, FT2 |-> FT2]

\* the end of decimate_halfedge_5d
CleanMesh ==
  /\ pc = "clean_mesh"
  /\ max_error' = current_max_error
  /\ LET c == clean_mesh(nV, F, nTC, FT, Rows(mesh.F))
     IN  out' = [out EXCEPT !.V = c.V, !.F = c.F, !.TC = c.TC, !.FT = c.FT,
                            !.F2 = c.F2, !.FT2 = c.FT2, !.returned = clean_finish]
  /\ pc' = (IF entry = "main" THEN "write" ELSE "done")
  /\ UNCHANGED <<inputVars, mainVars, seam_edges, meshVars, queueVars, target_num_vertices,
                 remain_vertices, prev_e, e, success, cost, clean_finish, current_max_error,
                 collapses, exit_code>>

\* main after decimate_down_to returned: the warning, the file name, the file
MainWrite ==
  /\ pc = "write"
  /\ \E given \in BOOLEAN :
       /\ custom_output_path' = given
       /\ out' = [out EXCEPT !.warning = ~out.returned,
                             !.wrote = TRUE,
                             !.path = (IF given THEN <<"custom">>
                                       ELSE <<"decimated_to", Len(out.V), "err", max_error>>)]
  /\ exit_code' = "0"
  /\ pc' = "done"
  /\ UNCHANGED <<inputVars, argv4_null, seam_edges, meshVars, queueVars, loopVars>>

Next ==
  \/ Main
  \/ DecimateDownTo
  \/ Prepare
  \/ LoopHead
  \/ CollapseAttempt
  \/ LoopTail
  \/ CleanMesh
  \/ MainWrite

Spec == Init /\ [][Next]_vars

(* ------------------------------------------------------------------ *)
(* The claims.                                                         *)
(* ------------------------------------------------------------------ *)
\* main ran the decimation: the target was below the input's vertex count
Decimated == entry = "main" /\ pc \in {"write", "done"} /\ cmd_target \in 1 .. (mesh.nV - 1)

\* decimate_halfedge_5d has returned, whoever called it
Returned == pc \in {"write", "done"} /\ E # <<>>

\* prepare_decimate_halfedge_5d has run
Prepared == E # <<>>

\* the run is between two turns of the loop of decimate_halfedge_5d, or past it
BetweenTurns == Prepared /\ pc \in {"loop", "clean_mesh", "write", "done"}

\* the vertices some collapse removed
Removed == {collapses[i][3] : i \in DOMAIN collapses}

\* the rows of 0..n-1 that some face of M references
Referenced(M, n) == {v \in 0 .. (n - 1) : \E f \in DOMAIN M : \E i \in Corners : M[f][i] = v}

\* the seam set of the input: its seams, boundaries and foldovers
InputSeamSet ==
  LET c == seam_edges_of(mesh) IN c.seams \cup c.boundaries \cup c.foldovers

\* C1: for every input and every target with 0 < target < V_in.rows(), the output of
\* decimate_halfedge_5d and clean_mesh has at least target and at most V_in.rows()
\* vertices.
C1_OutputAtLeastTarget ==
  Decimated => (cmd_target <= Len(out.V) /\ Len(out.V) <= mesh.nV)

\* C2: when the collapse loop ends above the target because the queue is empty or
\* its cheapest entry costs infinity, the run warns (decimate_halfedge_5d returned
\* false), writes the partly decimated mesh and exits with code 0.
C2_InfeasibleWarns ==
  (Decimated /\ pc = "done" /\ remain_vertices > target_num_vertices
     /\ (Q = {} \/ QBegin(Q)[1] = Infinity))
  => (out.warning /\ ~out.returned /\ out.wrote /\ exit_code = "0")

\* C3: every corner of every output face is a row of V_out, and of TC_out in FT_out;
\* no face copied to the output is a tombstone: its three F corners and its three
\* FT corners are not the null sentinel, and a working row is null in F exactly
\* when it is null in FT.
C3_OutputIndicesValid ==
  /\ Prepared =>
       /\ DOMAIN F = DOMAIN FT
       /\ \A f \in DOMAIN F :
            \/ F[f] = NullRow /\ FT[f] = NullRow
            \/ \A i \in Corners : /\ F[f][i] # DUV_COLLAPSE_EDGE_NULL
                                  /\ FT[f][i] # DUV_COLLAPSE_EDGE_NULL
  /\ Returned =>
       /\ DOMAIN out.F = DOMAIN out.FT
       /\ \A f \in DOMAIN out.F : \A i \in Corners :
            /\ out.F[f][i] \in 0 .. (Len(out.V) - 1)
            /\ out.FT[f][i] \in 0 .. (Len(out.TC) - 1)
       /\ \A f \in DOMAIN out.F2 : \A i \in Corners :
            /\ out.F2[f][i] # DUV_COLLAPSE_EDGE_NULL
            /\ out.FT2[f][i] # DUV_COLLAPSE_EDGE_NULL

\* a run that left tombstones among the input's faces and kept a face
C3_Witness ==
  /\ Returned
  /\ \E f \in DOMAIN mesh.F : F[f] = NullRow
  /\ Rows(out.F) >= 1

C5_SeamsPreserved ==
  (Prepared \/ pc = "prepare") =>
    \A p \in InputSeamSet :
      (p[1] \notin Removed /\ p[2] \notin Removed) => p \in seam_edges

\* a run whose collapses moved a seam edge to a new pair of vertices and left
\* another edge of the input's seam set with both endpoints
C5_Witness ==
  /\ Returned
  /\ collapses # <<>>
  /\ \E p \in InputSeamSet : p[1] \notin Removed /\ p[2] \notin Removed
  /\ \E p \in seam_edges : p \notin InputSeamSet

\* the largest sqrt(max(0, c)) / pos_scale over the costs c of the collapses cs
LargestError(cs) ==
  IF cs = <<>> THEN 0 ELSE SetMax({ErrorOf(cs[i][2]) : i \in DOMAIN cs})

\* C7: the max_error decimate_halfedge_5d returns is the largest
\* sqrt(max(0, c)) / pos_scale over the queue costs c of the edges that were
\* collapsed, and 0 when none was.
C7_MaxErrorOfCollapsed ==
  Returned => max_error = LargestError(collapses)

\* the places of a run in the order a run passes them, the two loops as one place
Place(l) ==
  CASE l = "main" -> 6
    [] l = "decimate_down_to" -> 5
    [] l = "prepare" -> 4
    [] l \in {"loop", "collapse_one_edge", "collapse_returned"} -> 3
    [] l = "clean_mesh" -> 2
    [] l = "write" -> 1
    [] l = "done" -> 0

\* the places inside the two loops, in the order a turn passes them
Turn(l) ==
  CASE l = "loop" -> 2
    [] l = "collapse_one_edge" -> 1
    [] l = "collapse_returned" -> 0

\* how far the queue's costs can still be raised: the pairs of an entry and a cost
\* above its own
Headroom ==
  Cardinality({<<q, c>> \in Q \X (Costs \cup {Infinity}) : c > q[1]})

\* what the loops use up: the vertices left (a collapse that the loop body has not
\* counted yet counts half), then the headroom of the queue, then the place in the turn
Variant ==
  << 2 * remain_vertices - (IF pc = "collapse_returned" /\ success THEN 1 ELSE 0),
     Headroom,
     Turn(pc) >>

Descends(a, b) ==
  \/ a[1] < b[1]
  \/ a[1] = b[1] /\ a[2] < b[2]
  \/ a[1] = b[1] /\ a[2] = b[2] /\ a[3] < b[3]

\* C8: every run ends: a step either moves the run on to a later place, or it is a
\* step of the loop of decimate_halfedge_5d or of the loop of collapse_one_edge
\* and uses up some of a variant that is a triple of naturals, so both loops are
\* left after finitely many turns and the run reaches clean_mesh and returns.
C8_Terminates ==
  [][ \/ Place(pc') < Place(pc)
      \/ /\ Place(pc') = Place(pc)
         /\ Place(pc) = 3
         /\ Descends(Variant', Variant)
         /\ remain_vertices' >= 0 ]_vars

\* a run on the mesh with a foldover that collapsed an edge, had a later attempt
\* fail, and returned
C8_Witness ==
  /\ pc = "done"
  /\ mesh.fold # {}
  /\ collapses # <<>>
  /\ ~clean_finish

\* C9: with a target of at least the input's vertex count main decimates nothing,
\* writes the input as it is to <stem>-decimated_to_<nV>_vertices.obj and exits
\* with code 0.
C9_TargetAtLeastInput ==
  (entry = "main" /\ pc = "done" /\ cmd_target >= mesh.nV)
  => /\ collapses = <<>>
     /\ out.wrote
     /\ out.V = Identity(mesh.nV) /\ out.F = mesh.F
     /\ out.TC = Identity(mesh.nTC) /\ out.FT = mesh.FT
     /\ out.path = <<"decimated_to", mesh.nV, "vertices">>
     /\ exit_code = "0"

\* decimate_halfedge_5d was called with the input's vertex count as its target and
\* has returned
NoOpCall == entry = "api" /\ pc = "done"

LastCollapse(cs) == cs[Len(cs)]

\* a turn of collapse_one_edge that finds something to pop
Pops == pc = "collapse_one_edge" /\ \E q \in Q : q[1] < Infinity

\* C11: a run takes nothing from anywhere but its input and the answers of the cost
\* oracle: a turn of collapse_one_edge pops the entry of the least cost and, among
\* entries of equal cost, of the least edge index; it collapses or refuses that edge
\* and no other; and the e that collapse_one_edge leaves uninitialised is assigned
\* by a pop before it is compared or copied to prev_e.
C11_Deterministic ==
  /\ [](pc = "collapse_returned" => e # Uninit)
  /\ [](prev_e # Uninit)
  /\ [][ Pops =>
           \E p \in Q :
             /\ \A q \in Q : p[1] < q[1] \/ (p[1] = q[1] /\ p[2] <= q[2])
             /\ e' = p[2]
             /\ \A q \in Q : q[2] # p[2] => q \in Q' \/ success'
             /\ IF success'
                  THEN /\ Len(collapses') = Len(collapses) + 1
                       /\ LastCollapse(collapses')[1] = p[2]
                       /\ LastCollapse(collapses')[2] = p[1]
                  ELSE collapses' = collapses ]_vars

\* a collapse of an edge while an entry of the same cost and a higher edge index,
\* untouched by the collapse, waited in the queue
C11_Witness ==
  /\ pc = "collapse_returned"
  /\ success
  /\ \E q \in Q : /\ q[2] \in stale
                  /\ q[1] = LastCollapse(collapses)[2]
                  /\ q[2] > e
                  /\ q[1] < Infinity

\* prepare_decimate_halfedge_5d has just returned: nothing was popped yet
JustPrepared == Prepared /\ pc = "loop" /\ prev_e = -1

\* C13: after prepare the queue holds one entry for every edge (Q.size() is
\* E.rows()); from then on no edge has two entries in the queue, Qit[e] is the
\* entry <<cost, e>> of every edge e that has one, and is the end of the queue for
\* every edge that has none.
C13_QueueConsistent ==
  Prepared =>
    /\ JustPrepared => Cardinality(Q) = Rows(E)
    /\ DOMAIN Qit = DOMAIN E
    /\ \A q \in Q : \A r \in Q : q[2] = r[2] => q = r
    /\ \A q \in Q : q[2] \in DOMAIN Qit /\ Qit[q[2]] = q
    /\ \A x \in DOMAIN Qit : Qit[x] # QEnd => (Qit[x] \in Q /\ Qit[x][2] = x)

\* a run between two collapses: an edge was collapsed and has no entry any more,
\* while an edge of a positive finite cost is still queued
C13_Witness ==
  /\ pc = "loop"
  /\ Len(collapses) = 1
  /\ \E x \in DOMAIN Qit : Qit[x] = QEnd
  /\ \E q \in Q : q[1] < Infinity /\ q[1] > 0
  /\ Cardinality(Q) < Rows(E)

====
